---- MODULE Spec2Model ----
(***************************************************************************)
(* Dual-arm coordinator of dual_scorpion: the follower robot               *)
(* (DualScorpionFollower) and the leader teleoperator (DualScropionLeader).*)
(* Each public method is one action.  A method is a straight-line program  *)
(* of calls on the two motor buses, the cameras and the calibration file;  *)
(* every such call may raise, which aborts the method at that point.       *)
(*                                                                         *)
(* Strings that the code takes apart (dictionary keys) are sequences of    *)
(* tokens: "right_joint0.pos" is <<"right_", "joint0", ".pos">>.           *)
(* Dictionaries whose insertion order matters are sequences of             *)
(* <<key, value>> pairs; the others are functions.                         *)
(***************************************************************************)
EXTENDS Integers, Sequences, FiniteSets, TLC

\* ------------------------------------------------------------------ bounds
MaxPos == 1          \* positions are 0 or MaxPos, requested goals -MaxPos or MaxPos
MaxStep == 1         \* max_relative_target is None or one of 1..MaxStep
MaxOffset == 1       \* homing offsets returned by a bus range over 0..MaxOffset
MaxActionLen == 1    \* an action dictionary holds at most this many keys

\* ------------------------------------------------------- program constants
NumMotors == 8       \* motors per bus
PCoefficient == 16
ICoefficient == 0
DCoefficient == 32
PositionMode == 0    \* OperatingMode.POSITION.value

None == "None"
NoStep == <<>>       \* max_relative_target is None; <<k>> is the step k
NoError == "none"

Sides == {"right", "left"}
Motors == <<"joint0", "joint1", "joint2", "joint3", "joint4", "joint5", "joint6", "gripper">>
MotorNames == {Motors[i] : i \in 1..NumMotors}
MotorId(m) == CHOOSE i \in 1..NumMotors : Motors[i] = m

Variants == {"follower", "leader"}
CameraNames == {"front"}

Positions == {0, MaxPos}      \* what a bus may answer a position read with
Requests == {-MaxPos, MaxPos}  \* what a caller may ask a joint to go to
Offsets == 0..MaxOffset
RecordedRange == <<0, 1>>   \* the range record_ranges_of_motion answers with
RangeMin == RecordedRange[1]
RangeMax == RecordedRange[2]

\* ------------------------------------------------------------ string tools
Prefix(side) == IF side = "right" THEN "right_" ELSE "left_"

\* str.startswith(prefix)
StartsWith(key, tok) == Len(key) > 0 /\ key[1] = tok

\* str.endswith(suffix)
EndsWith(key, tok) == Len(key) > 0 /\ key[Len(key)] = tok

\* str.removesuffix(suffix)
RemoveSuffix(key, tok) == IF EndsWith(key, tok) THEN SubSeq(key, 1, Len(key) - 1) ELSE key

\* str.replace(prefix, ""): every occurrence is removed, not only the leading one
RECURSIVE Replace(_, _)
Replace(key, tok) ==
    IF key = <<>> THEN <<>>
    ELSE IF Head(key) = tok THEN Replace(Tail(key), tok)
    ELSE <<Head(key)>> \o Replace(Tail(key), tok)

\* f"{prefix}{key}"
AddPrefix(tok, key) == <<tok>> \o key

\* f"{key}.pos"
AddSuffix(key, tok) == key \o <<tok>>

\* ------------------------------------------------------------ dictionaries
EmptyMap == [k \in {} |-> 0]

\* dict(pairs) for a list of <<key, value>> pairs: a later pair with the same key wins
RECURSIVE ToMap(_)
ToMap(pairs) ==
    IF pairs = <<>> THEN EmptyMap
    ELSE LET rest == ToMap(SubSeq(pairs, 1, Len(pairs) - 1))
             last == pairs[Len(pairs)]
         IN  [k \in (DOMAIN rest) \cup {last[1]} |-> IF k = last[1] THEN last[2] ELSE rest[k]]

Keys(pairs) == {pairs[i][1] : i \in 1..Len(pairs)}

\* the whole dictionary handed on as it is, keys and all
SplitSideWhole(d, side) == d

\* {motor.replace(prefix, ""): v for motor, v in d.items() if motor.startswith(prefix)}
SplitSide(d, side) ==
    LET ks == {k \in DOMAIN d : StartsWith(k, Prefix(side))}
        locals == {Replace(k, Prefix(side)) : k \in ks}
    IN  [l \in locals |-> d[CHOOSE k \in ks : Replace(k, Prefix(side)) = l]]

\* MotorCalibration(id, drive_mode=0, homing_offset, range_min, range_max)
MotorCalibration(m, offset, rmin, rmax) ==
    [id |-> MotorId(m), drive_mode |-> 0, homing_offset |-> offset,
     range_min |-> rmin, range_max |-> rmax]

\* the records one side contributes to self.calibration
SideRecords(side, offset) ==
    [k \in {<<Prefix(side), m>> : m \in MotorNames} |->
        MotorCalibration(k[2], offset, RangeMin, RangeMax)]

Merge(f, g) == [k \in (DOMAIN f) \cup (DOMAIN g) |-> IF k \in DOMAIN g THEN g[k] ELSE f[k]]

\* ------------------------------------------------------------------- state
VARIABLES
    variant,        \* which class the device is
    maxStep,        \* config.max_relative_target as the send_action that has just run read it
    cameras,        \* names of the configured cameras (follower)
    busConnected,   \* bus.is_connected, per side
    camConnected,   \* cam.is_connected, per configured camera
    torque,         \* torque enabled on the bus, per side
    busCal,         \* bus.calibration, per side, under local keys
    calibration,    \* self.calibration, under unified keys
    lastOp,         \* the method that has just run, "None" between calls
    pre,            \* is_connected, is_calibrated and the buses' state when it was called
    lastFlag,       \* its flag argument: calibrate of connect, disable torque of disconnect
    lastArg,        \* its action argument, a list of <<key, value>> pairs
    result,         \* "none" when it returned, else the exception it raised
    ret,            \* its return value
    ioLog           \* the bus, camera and file calls it made, in order

vars == <<variant, maxStep, cameras, busConnected, camConnected, torque, busCal,
          calibration, lastOp, pre, lastFlag, lastArg, result, ret, ioLog>>

\* ------------------------------------------------- the machine while a method runs
\* A method is a list of statements.  It threads a record through them: the device
\* and hardware state, the exception raised (err), the calls made so far (log) and
\* the value returned (ret) and the buses whose torque_disabled() block is open (ctx,
\* innermost first).
Machine ==
    [conn |-> busConnected, cam |-> camConnected, torque |-> torque, busCal |-> busCal,
     calibration |-> calibration,
     log |-> <<>>, err |-> NoError, ret |-> EmptyMap, ctx |-> <<>>]

\* a statement: a call on a collaborator (a bus, a camera, the console, the
\* calibration file) or a statement of the method itself (dev = "self"); arg is what
\* the call is handed or answers, a map
Op(dev, op, arg) == [dev |-> dev, op |-> op, arg |-> arg]

\* a call without arguments
NoArg == EmptyMap

\* bus.disconnect(disable_torque)
DisableTorque(dt) == [k \in {<<"disable_torque">>} |-> dt]

\* bus.write(register, motor, value)
Register(register, motor, value) == [k \in {<<register, motor>>} |-> value]

\* the homing offsets set_half_turn_homings() answers, motor by motor
HomingOffsets(offset) == [k \in {<<m>> : m \in MotorNames} |-> offset]

\* the range_mins and range_maxes record_ranges_of_motion() answers
Ranges ==
    [k \in {<<b, m>> : b \in {"min", "max"}, m \in MotorNames} |->
        IF k[1] = "min" THEN RangeMin ELSE RangeMax]

\* a calibration dictionary, field by field
Fields(cal) ==
    [k \in {l \o <<f>> : l \in DOMAIN cal,
                          f \in {"id", "drive_mode", "homing_offset", "range_min", "range_max"}} |->
        cal[SubSeq(k, 1, Len(k) - 1)][k[Len(k)]]]

IsBus(dev) == dev \in Sides
IsCamera(dev) == dev \in CameraNames
IsCall(o) == o.dev # "self"

\* what a healthy collaborator answers: the exception it raises for a call made in the
\* wrong connection state, or "none"
Refusal(s, o) ==
    IF IsBus(o.dev) THEN
        IF o.op = "connect" THEN
            IF s.conn[o.dev] THEN "DeviceAlreadyConnectedError" ELSE NoError
        ELSE IF s.conn[o.dev] THEN NoError ELSE "DeviceNotConnectedError"
    ELSE IF IsCamera(o.dev) THEN
        IF o.op = "connect" THEN
            IF s.cam[o.dev] THEN "DeviceAlreadyConnectedError" ELSE NoError
        ELSE IF s.cam[o.dev] THEN NoError ELSE "DeviceNotConnectedError"
    ELSE NoError

\* the argument a call is made with: write_calibration gets the side's share of
\* self.calibration as it is when the call is made
Resolve(s, o) ==
    IF IsBus(o.dev) /\ o.op = "write_calibration"
    THEN [o EXCEPT !.arg = Fields(SplitSide(s.calibration, o.dev))]
    ELSE o

\* the effect of a bus call that succeeds
BusEffect(s, o) ==
    CASE o.op = "connect" -> [s EXCEPT !.conn[o.dev] = TRUE]
      [] o.op = "disconnect" ->
            [s EXCEPT !.conn[o.dev] = FALSE,
                      !.torque[o.dev] = IF o.arg[<<"disable_torque">>] THEN FALSE ELSE @]
      [] o.op = "disable_torque" -> [s EXCEPT !.torque[o.dev] = FALSE]
      [] o.op = "torque_disabled.enter" ->
            [s EXCEPT !.torque[o.dev] = FALSE, !.ctx = <<o.dev>> \o @]
      [] o.op = "torque_disabled.exit" ->
            [s EXCEPT !.torque[o.dev] = TRUE, !.ctx = Tail(@)]
      [] o.op = "set_half_turn_homings" -> [s EXCEPT !.busCal[o.dev] = EmptyMap]
      [] o.op = "write_calibration" ->
            [s EXCEPT !.busCal[o.dev] = SplitSide(s.calibration, o.dev)]
      [] OTHER -> s

\* the effect of a camera call that succeeds
CameraEffect(s, o) ==
    CASE o.op = "connect" -> [s EXCEPT !.cam[o.dev] = TRUE]
      [] o.op = "disconnect" -> [s EXCEPT !.cam[o.dev] = FALSE]
      [] OTHER -> s

\* the effect of a statement of the method itself
SelfEffect(s, o) ==
    CASE o.op = "calibration_reset" -> [s EXCEPT !.calibration = EmptyMap]
      [] o.op = "calibration_update" -> [s EXCEPT !.calibration = Merge(@, o.arg)]
      [] o.op = "raise" -> [s EXCEPT !.err = o.arg]
      [] o.op = "return" -> [s EXCEPT !.ret = o.arg]
      [] OTHER -> s

\* the effect of a statement that succeeds
Effect(s, o) ==
    IF IsBus(o.dev) THEN BusEffect(s, o)
    ELSE IF IsCamera(o.dev) THEN CameraEffect(s, o)
    ELSE IF o.dev = "self" THEN SelfEffect(s, o)
    ELSE s

Logged(o, ok) == [dev |-> o.dev, op |-> o.op, arg |-> o.arg, ok |-> ok]

\* a call raises e: nothing but the log changes
Failed(s, o, e) == [s EXCEPT !.err = e, !.log = Append(@, Logged(Resolve(s, o), FALSE))]

\* one statement, no exception in flight
Step(s, o) ==
    IF ~IsCall(o) THEN Effect(s, o)
    ELSE IF Refusal(s, o) # NoError THEN Failed(s, o, Refusal(s, o))
    ELSE LET r == Resolve(s, o)
         IN  [Effect(s, r) EXCEPT !.log = Append(@, Logged(r, TRUE))]

\* the states after each of ops[lo..hi], up to and including the first one that
\* raises (built in halves to keep the evaluation shallow)
RECURSIVE TraceRange(_, _, _, _)
TraceRange(s, ops, lo, hi) ==
    IF lo > hi THEN <<>>
    ELSE IF lo = hi THEN <<Step(s, ops[lo])>>
    ELSE LET mid == (lo + hi) \div 2
             left == TraceRange(s, ops, lo, mid)
             last == left[Len(left)]
         IN  IF last.err # NoError THEN left
             ELSE left \o TraceRange(last, ops, mid + 1, hi)

\* the states a run without transport failure goes through: before ops[1], after ops[1], ...
Trace(s, ops) == <<s>> \o TraceRange(s, ops, 1, Len(ops))

\* an exception leaves the method: the open torque_disabled() blocks exit, innermost
\* first, each re-enabling torque on its bus
RECURSIVE Unwind(_)
Unwind(s) ==
    IF s.ctx = <<>> THEN s
    ELSE LET o == Op(Head(s.ctx), "torque_disabled.exit", NoArg)
             t == IF Refusal(s, o) # NoError
                  THEN [Failed(s, o, Refusal(s, o)) EXCEPT !.ctx = Tail(@)]
                  ELSE [Effect(s, o) EXCEPT !.log = Append(@, Logged(o, TRUE))]
         IN  Unwind(t)

\* a method that catches a failing sync_write, passes over it and goes on with its
\* next statement
OutcomesSwallowing(s, ops) ==
    LET tr == Trace(s, ops)
        n == Len(tr) - 1
        through == IF tr[n + 1].err = NoError THEN tr[n + 1] ELSE Unwind(tr[n + 1])
        failable == {i \in 1..n : IsCall(ops[i]) /\ Refusal(tr[i], ops[i]) = NoError}
        goOn(i) ==
            LET caught == [Failed(tr[i], ops[i], "BusTransportError") EXCEPT !.err = NoError]
                rest == Trace(caught, SubSeq(ops, i + 1, Len(ops)))
                last == rest[Len(rest)]
            IN  IF last.err = NoError THEN last ELSE Unwind(last)
    IN  {through} \cup {IF ops[i].op = "sync_write" THEN goOn(i)
                        ELSE Unwind(Failed(tr[i], ops[i], "BusTransportError")) :
                            i \in failable}

\* every way the method can end: it runs through, or one of its calls raises
\* BusTransportError (a console prompt: KeyboardInterrupt) where it would have succeeded
Outcomes(s, ops) ==
    LET tr == Trace(s, ops)
        n == Len(tr) - 1
        through == IF tr[n + 1].err = NoError THEN tr[n + 1] ELSE Unwind(tr[n + 1])
        failable == {i \in 1..n : IsCall(ops[i]) /\ Refusal(tr[i], ops[i]) = NoError}
    IN  {through} \cup {Unwind(Failed(tr[i], ops[i], "BusTransportError")) : i \in failable}

\* ------------------------------------------------------------- properties
\* bus.is_calibrated: the bus holds a record for every one of its motors
BusIsCalibrated(cal) == DOMAIN cal = {<<m>> : m \in MotorNames}

IsCalibratedIn(s) == BusIsCalibrated(s.busCal["right"]) /\ BusIsCalibrated(s.busCal["left"])

\* an is_connected that asks the two buses and not the cameras
IsConnectedInBusesOnly(s) == s.conn["right"] /\ s.conn["left"]

\* an is_connected that asks the right bus only
IsConnectedInRightOnly(s) == s.conn["right"]

IsConnectedIn(s) ==
    /\ s.conn["right"]
    /\ s.conn["left"]
    /\ (variant = "follower" => \A c \in cameras : s.cam[c])

is_connected == IsConnectedIn(Machine)
is_calibrated == IsCalibratedIn(Machine)

\* ------------------------------------------------------------- the methods
\* for motor in bus.motors: bus.write(register, motor, value)
WriteAll(side, register, value) ==
    [i \in 1..NumMotors |-> Op(side, "write", Register(register, Motors[i], value))]

\* a calibrate() that writes each side's calibration to its bus as soon as the side's
\* records are built
CalibrateProgramSideBySide(hR, hL) ==
    <<Op("right", "disable_torque", NoArg),
      Op("left", "disable_torque", NoArg)>>
    \o WriteAll("right", "Operating_Mode", PositionMode)
    \o WriteAll("left", "Operating_Mode", PositionMode)
    \o <<Op("self", "calibration_reset", NoArg),
         Op("console", "input", NoArg),
         Op("right", "set_half_turn_homings", HomingOffsets(hR)),
         Op("right", "record_ranges_of_motion", Ranges),
         Op("self", "calibration_update", SideRecords("right", hR)),
         Op("right", "write_calibration", NoArg),
         Op("console", "input", NoArg),
         Op("left", "set_half_turn_homings", HomingOffsets(hL)),
         Op("left", "record_ranges_of_motion", Ranges),
         Op("self", "calibration_update", SideRecords("left", hL)),
         Op("left", "write_calibration", NoArg),
         Op("file", "save", NoArg)>>

\* a calibrate() that builds the left records from the right arm's homing offsets
CalibrateProgramCopiedOffsets(hR, hL) ==
    <<Op("right", "disable_torque", NoArg),
      Op("left", "disable_torque", NoArg)>>
    \o WriteAll("right", "Operating_Mode", PositionMode)
    \o WriteAll("left", "Operating_Mode", PositionMode)
    \o <<Op("self", "calibration_reset", NoArg),
         Op("console", "input", NoArg),
         Op("right", "set_half_turn_homings", HomingOffsets(hR)),
         Op("right", "record_ranges_of_motion", Ranges),
         Op("self", "calibration_update", SideRecords("right", hR)),
         Op("console", "input", NoArg),
         Op("left", "set_half_turn_homings", HomingOffsets(hL)),
         Op("left", "record_ranges_of_motion", Ranges),
         Op("self", "calibration_update", SideRecords("left", hR)),
         Op("right", "write_calibration", NoArg),
         Op("left", "write_calibration", NoArg),
         Op("file", "save", NoArg)>>

\* a calibrate() that homes both arms before it records the ranges of either
CalibrateProgramInterleaved(hR, hL) ==
    <<Op("right", "disable_torque", NoArg),
      Op("left", "disable_torque", NoArg)>>
    \o WriteAll("right", "Operating_Mode", PositionMode)
    \o WriteAll("left", "Operating_Mode", PositionMode)
    \o <<Op("self", "calibration_reset", NoArg),
         Op("console", "input", NoArg),
         Op("right", "set_half_turn_homings", HomingOffsets(hR)),
         Op("console", "input", NoArg),
         Op("left", "set_half_turn_homings", HomingOffsets(hL)),
         Op("right", "record_ranges_of_motion", Ranges),
         Op("self", "calibration_update", SideRecords("right", hR)),
         Op("left", "record_ranges_of_motion", Ranges),
         Op("self", "calibration_update", SideRecords("left", hL)),
         Op("right", "write_calibration", NoArg),
         Op("left", "write_calibration", NoArg),
         Op("file", "save", NoArg)>>

\* calibrate(): hR and hL are the homing offsets the two buses answer with
CalibrateProgram(hR, hL) ==
    <<Op("right", "disable_torque", NoArg),
      Op("left", "disable_torque", NoArg)>>
    \o WriteAll("right", "Operating_Mode", PositionMode)
    \o WriteAll("left", "Operating_Mode", PositionMode)
    \o <<Op("self", "calibration_reset", NoArg),
         Op("console", "input", NoArg),
         Op("right", "set_half_turn_homings", HomingOffsets(hR)),
         Op("right", "record_ranges_of_motion", Ranges),
         Op("self", "calibration_update", SideRecords("right", hR)),
         Op("console", "input", NoArg),
         Op("left", "set_half_turn_homings", HomingOffsets(hL)),
         Op("left", "record_ranges_of_motion", Ranges),
         Op("self", "calibration_update", SideRecords("left", hL)),
         Op("right", "write_calibration", NoArg),
         Op("left", "write_calibration", NoArg),
         Op("file", "save", NoArg)>>

\* the follower's motor settings, motor by motor
FollowerMotorWrites(side) ==
    LET one(m) == <<Op(side, "write", Register("Operating_Mode", m, PositionMode)),
                    Op(side, "write", Register("P_Coefficient", m, PCoefficient)),
                    Op(side, "write", Register("I_Coefficient", m, ICoefficient)),
                    Op(side, "write", Register("D_Coefficient", m, DCoefficient))>>
        F[i \in 0..NumMotors] == IF i = 0 THEN <<>> ELSE F[i - 1] \o one(Motors[i])
    IN  F[NumMotors]

\* a configure() of the follower that disables torque as the leader's does, with no
\* torque_disabled() block
FollowerConfigureProgramTorqueLeftOff ==
    <<Op("right", "disable_torque", NoArg),
      Op("left", "disable_torque", NoArg),
      Op("right", "configure_motors", NoArg),
      Op("left", "configure_motors", NoArg)>>
    \o FollowerMotorWrites("right")
    \o FollowerMotorWrites("left")

\* configure() of the follower: a torque_disabled() block over both buses
FollowerConfigureProgram ==
    <<Op("right", "torque_disabled.enter", NoArg),
      Op("left", "torque_disabled.enter", NoArg),
      Op("right", "configure_motors", NoArg),
      Op("left", "configure_motors", NoArg)>>
    \o FollowerMotorWrites("right")
    \o FollowerMotorWrites("left")
    \o <<Op("left", "torque_disabled.exit", NoArg),
         Op("right", "torque_disabled.exit", NoArg)>>

\* a configure() of the leader in a torque_disabled() block, as the follower's is
LeaderConfigureProgramInBlock ==
    <<Op("right", "torque_disabled.enter", NoArg),
      Op("left", "torque_disabled.enter", NoArg),
      Op("right", "configure_motors", NoArg),
      Op("left", "configure_motors", NoArg)>>
    \o WriteAll("right", "Operating_Mode", PositionMode)
    \o WriteAll("left", "Operating_Mode", PositionMode)
    \o <<Op("left", "torque_disabled.exit", NoArg),
         Op("right", "torque_disabled.exit", NoArg)>>

\* configure() of the leader
LeaderConfigureProgram ==
    <<Op("right", "disable_torque", NoArg),
      Op("left", "disable_torque", NoArg),
      Op("right", "configure_motors", NoArg),
      Op("left", "configure_motors", NoArg)>>
    \o WriteAll("right", "Operating_Mode", PositionMode)
    \o WriteAll("left", "Operating_Mode", PositionMode)

ConfigureProgram ==
    IF variant = "follower" THEN FollowerConfigureProgram ELSE LeaderConfigureProgram

\* for cam in self.cameras.values(): cam.<op>()
CameraOps(op) ==
    LET F[cs \in SUBSET cameras] ==
            IF cs = {} THEN <<>>
            ELSE LET c == CHOOSE x \in cs : TRUE IN <<Op(c, op, NoArg)>> \o F[cs \ {c}]
    IN  F[cameras]

Raise(e) == <<Op("self", "raise", e)>>

ReturnValue(v) == <<Op("self", "return", v)>>

\* connect(calibrate) of the follower.  bus.connect() leaves bus.calibration alone, so
\* is_calibrated after the two connects is is_calibrated before them.
FollowerConnectProgram(calibrate, hR, hL) ==
    IF is_connected THEN Raise("DeviceAlreadyConnectedError")
    ELSE <<Op("right", "connect", NoArg), Op("left", "connect", NoArg)>>
         \o (IF ~is_calibrated /\ calibrate THEN CalibrateProgram(hR, hL) ELSE <<>>)
         \o CameraOps("connect")
         \o FollowerConfigureProgram

\* connect(calibrate) of the leader
LeaderConnectProgram(calibrate, hR, hL) ==
    IF is_connected THEN Raise("DeviceAlreadyConnectedError")
    ELSE <<Op("right", "connect", NoArg), Op("left", "connect", NoArg)>>
         \o (IF ~is_calibrated /\ calibrate THEN CalibrateProgram(hR, hL) ELSE <<>>)
         \o LeaderConfigureProgram

\* a connect() that calibrates whenever asked to, calibrated or not
ConnectProgramAlwaysCalibrates(calibrate, hR, hL) ==
    IF is_connected THEN Raise("DeviceAlreadyConnectedError")
    ELSE <<Op("right", "connect", NoArg), Op("left", "connect", NoArg)>>
         \o (IF calibrate THEN CalibrateProgram(hR, hL) ELSE <<>>)
         \o (IF variant = "follower" THEN CameraOps("connect") \o FollowerConfigureProgram
             ELSE LeaderConfigureProgram)

\* a connect() without the check of is_connected
ConnectProgramUnchecked(calibrate, hR, hL) ==
    <<Op("right", "connect", NoArg), Op("left", "connect", NoArg)>>
    \o (IF ~is_calibrated /\ calibrate THEN CalibrateProgram(hR, hL) ELSE <<>>)
    \o (IF variant = "follower" THEN CameraOps("connect") \o FollowerConfigureProgram
        ELSE LeaderConfigureProgram)

ConnectProgram(calibrate, hR, hL) ==
    IF variant = "follower" THEN FollowerConnectProgram(calibrate, hR, hL)
    ELSE LeaderConnectProgram(calibrate, hR, hL)

\* disconnect() of the follower; dt is config.disable_torque_on_disconnect
FollowerDisconnectProgram(dt) ==
    IF ~is_connected THEN Raise("DeviceNotConnectedError")
    ELSE <<Op("right", "disconnect", DisableTorque(dt)),
          Op("left", "disconnect", DisableTorque(dt))>>
         \o CameraOps("disconnect")

\* disconnect() of the leader: the error is built and not raised
LeaderDisconnectProgram ==
    <<Op("right", "disconnect", DisableTorque(TRUE)),
      Op("left", "disconnect", DisableTorque(TRUE))>>

\* a disconnect() that takes the left bus first
DisconnectProgramLeftFirst(dt) ==
    IF variant = "follower" THEN
        IF ~is_connected THEN Raise("DeviceNotConnectedError")
        ELSE <<Op("left", "disconnect", DisableTorque(dt)),
               Op("right", "disconnect", DisableTorque(dt))>>
             \o CameraOps("disconnect")
    ELSE <<Op("left", "disconnect", DisableTorque(TRUE)),
           Op("right", "disconnect", DisableTorque(TRUE))>>

DisconnectProgram(dt) ==
    IF variant = "follower" THEN FollowerDisconnectProgram(dt) ELSE LeaderDisconnectProgram

\* ------------------------------------------------------------ send_action
Abs(x) == IF x < 0 THEN -x ELSE x
Sign(x) == IF x < 0 THEN -1 ELSE IF x > 0 THEN 1 ELSE 0

\* the safety clamp on one joint
Clamp(requested, current, step) ==
    IF Abs(requested - current) > step
    THEN current + Sign(requested - current) * step
    ELSE requested

\* ensure_safe_goal_position(goal_present_pos, max_relative_target):
\* goal_present_pos is a list of <<key, <<goal, present>>>> pairs
EnsureSafeGoalPosition(gpp, step) ==
    [i \in 1..Len(gpp) |-> <<gpp[i][1], Clamp(gpp[i][2][1], gpp[i][2][2], step)>>]

\* {key.removesuffix(".pos"): val for key, val in action.items() if key.endswith(".pos")}
GoalPos(action) ==
    LET isPos(kv) == EndsWith(kv[1], ".pos")
        kept == SelectSeq(action, isPos)
    IN  [i \in 1..Len(kept) |-> <<RemoveSuffix(kept[i][1], ".pos"), kept[i][2]>>]

\* the keys of goal_pos that start with the side's prefix, in order
OfSide(goalPos, side) ==
    LET test(kv) == StartsWith(kv[1], Prefix(side)) IN SelectSeq(goalPos, test)

\* {f"{prefix}{key}": (g_pos, present_pos[key]) for key, g_pos in goal_pos.items()
\*  if key.startswith(prefix)}: present_pos is looked up under the unified key
GoalPresentPos(goalPos, side, presentPos) ==
    LET mine == OfSide(goalPos, side)
    IN  [i \in 1..Len(mine) |->
            <<AddPrefix(Prefix(side), mine[i][1]), <<mine[i][2], presentPos[mine[i][1]]>>>>]

\* the lookups above raise KeyError for a key the bus did not answer
GoalPresentPosFails(goalPos, side, presentPos) ==
    \E i \in 1..Len(goalPos) :
        StartsWith(goalPos[i][1], Prefix(side)) /\ goalPos[i][1] \notin DOMAIN presentPos

\* goal_present_pos.update(...): a pair with a key already there replaces its value
Update(pairs, more) ==
    LET fresh(kv) == kv[1] \notin Keys(pairs)
        m == ToMap(more)
    IN  [i \in 1..Len(pairs) |->
            IF pairs[i][1] \in DOMAIN m THEN <<pairs[i][1], m[pairs[i][1]]>> ELSE pairs[i]]
        \o SelectSeq(more, fresh)

\* {key.replace(prefix, ""): val for key, val in goal_pos.items() if key.startswith(prefix)}
SideGoalPos(goalPos, side) ==
    LET mine == OfSide(goalPos, side)
    IN  ToMap([i \in 1..Len(mine) |-> <<Replace(mine[i][1], Prefix(side)), mine[i][2]>>])

\* return {f"{motor}.pos": val for motor, val in goal_pos.items()}
Applied(goalPos) ==
    ToMap([i \in 1..Len(goalPos) |-> <<AddSuffix(goalPos[i][1], ".pos"), goalPos[i][2]>>])

\* what sync_read("Present_Position") answers when every motor stands at p
PresentPosition(p) == [k \in {<<m>> : m \in MotorNames} |-> p]

\* goal_pos after the clamp (step is config.max_relative_target, not None)
SafeGoalPos(action, step, pR, pL) ==
    EnsureSafeGoalPosition(
        Update(GoalPresentPos(GoalPos(action), "right", PresentPosition(pR)),
               GoalPresentPos(GoalPos(action), "left", PresentPosition(pL))),
        step[1])

\* building goal_present_pos raises KeyError
ClampKeyError(action, pR, pL) ==
    \/ GoalPresentPosFails(GoalPos(action), "right", PresentPosition(pR))
    \/ GoalPresentPosFails(GoalPos(action), "left", PresentPosition(pL))

\* the goal_pos that is written and returned
FinalGoalPos(action, step, pR, pL) ==
    IF step = NoStep THEN GoalPos(action) ELSE SafeGoalPos(action, step, pR, pL)

\* a send_action that reads the positions and writes goal_pos as requested, the
\* clamp left out
SendActionProgramUnclamped(action, step, pR, pL) ==
    IF ~is_connected THEN Raise("DeviceNotConnectedError")
    ELSE (IF step # NoStep
          THEN <<Op("right", "sync_read", PresentPosition(pR)),
                 Op("left", "sync_read", PresentPosition(pL))>>
          ELSE <<>>)
         \o <<Op("right", "sync_write", SideGoalPos(GoalPos(action), "right")),
              Op("left", "sync_write", SideGoalPos(GoalPos(action), "left"))>>
         \o ReturnValue(Applied(GoalPos(action)))

\* a send_action that handles one arm after the other: the right arm is written
\* before the left arm is read
SendActionProgramArmByArm(action, step, pR, pL) ==
    IF ~is_connected THEN Raise("DeviceNotConnectedError")
    ELSE IF step # NoStep /\ ClampKeyError(action, pR, pL)
    THEN <<Op("right", "sync_read", PresentPosition(pR)),
           Op("left", "sync_read", PresentPosition(pL))>>
         \o Raise("KeyError")
    ELSE (IF step # NoStep THEN <<Op("right", "sync_read", PresentPosition(pR))>> ELSE <<>>)
         \o <<Op("right", "sync_write", SideGoalPos(FinalGoalPos(action, step, pR, pL), "right"))>>
         \o (IF step # NoStep THEN <<Op("left", "sync_read", PresentPosition(pL))>> ELSE <<>>)
         \o <<Op("left", "sync_write", SideGoalPos(FinalGoalPos(action, step, pR, pL), "left"))>>
         \o ReturnValue(Applied(FinalGoalPos(action, step, pR, pL)))

\* send_action(action): step is config.max_relative_target, pR and pL are the
\* positions the buses answer with
SendActionProgram(action, step, pR, pL) ==
    IF ~is_connected THEN Raise("DeviceNotConnectedError")
    ELSE IF step # NoStep /\ ClampKeyError(action, pR, pL)
    THEN <<Op("right", "sync_read", PresentPosition(pR)),
           Op("left", "sync_read", PresentPosition(pL))>>
         \o Raise("KeyError")
    ELSE (IF step # NoStep
          THEN <<Op("right", "sync_read", PresentPosition(pR)),
                 Op("left", "sync_read", PresentPosition(pL))>>
          ELSE <<>>)
         \o <<Op("right", "sync_write", SideGoalPos(FinalGoalPos(action, step, pR, pL), "right")),
              Op("left", "sync_write", SideGoalPos(FinalGoalPos(action, step, pR, pL), "left"))>>
         \o ReturnValue(Applied(FinalGoalPos(action, step, pR, pL)))

\* ------------------------------------------------ get_observation, get_action
\* both arms' answers put under the right arm's prefix
UnifiedRightOnly(side, local) ==
    [k \in {<<"right_">> \o l \o <<".pos">> : l \in DOMAIN local} |->
        local[SubSeq(k, 2, Len(k) - 1)]]

\* {f"{side}_{motor}.pos": val for motor, val in answer.items()}
Unified(side, local) ==
    [k \in {<<Prefix(side)>> \o l \o <<".pos">> : l \in DOMAIN local} |->
        local[SubSeq(k, 2, Len(k) - 1)]]

Frames == [k \in {<<c>> : c \in cameras} |-> "frame"]

\* obs_dict of get_observation
GetObservationReturn(pR, pL) ==
    Merge(Merge(Unified("right", PresentPosition(pR)),
                Unified("left", PresentPosition(pL))), Frames)

\* get_observation() of the follower
GetObservationProgram(pR, pL) ==
    IF ~is_connected THEN Raise("DeviceNotConnectedError")
    ELSE <<Op("right", "sync_read", PresentPosition(pR)),
           Op("left", "sync_read", PresentPosition(pL))>>
         \o CameraOps("async_read")
         \o ReturnValue(GetObservationReturn(pR, pL))

\* the action get_action returns
GetActionReturn(pR, pL) ==
    Merge(Unified("right", PresentPosition(pR)), Unified("left", PresentPosition(pL)))

\* get_action() of the leader: no connection check of its own
GetActionProgram(pR, pL) ==
    <<Op("right", "sync_read", PresentPosition(pR)),
      Op("left", "sync_read", PresentPosition(pL))>>
    \o ReturnValue(GetActionReturn(pR, pL))

\* ---------------------------------------------------------------- features
\* {f"{side}_{motor}.pos": float for motor in bus.motors}
SideFt(side) ==
    [k \in {AddSuffix(AddPrefix(Prefix(side), <<m>>), ".pos") : m \in MotorNames} |-> "float"]

\* _motors_ft of the follower
MotorsFt == Merge(SideFt("right"), SideFt("left"))

\* _cameras_ft of the follower: (height, width, 3) per camera
CamerasFt == [k \in {<<c>> : c \in cameras} |-> "shape"]

\* observation_features of the follower
ObservationFeatures == Merge(MotorsFt, CamerasFt)

\* action_features of the leader
LeaderActionFeatures == Merge(SideFt("right"), SideFt("left"))

\* action_features
ActionFeatures == IF variant = "follower" THEN MotorsFt ELSE LeaderActionFeatures

\* ------------------------------------------------------------------ inputs
\* the keys a caller may put in an action
ActionKeys ==
    { <<"right_", "joint0", ".pos">>,            \* right_joint0.pos
      <<"left_", "gripper", ".pos">>,            \* left_gripper.pos
      <<"joint0", ".pos">>,                      \* joint0.pos: no side prefix
      <<"right_", "joint0", ".vel">>,            \* right_joint0.vel: not a position
      <<"right_", "right_", "joint0", ".pos">> } \* right_right_joint0.pos

\* the action dictionaries: lists of pairs with distinct keys
RECURSIVE ActionsOfLen(_)
ActionsOfLen(n) ==
    IF n = 0 THEN {<<>>}
    ELSE {Append(a, <<k, v>>) : a \in ActionsOfLen(n - 1), k \in ActionKeys, v \in Requests}

Actions ==
    {a \in UNION {ActionsOfLen(n) : n \in 0..MaxActionLen} : Cardinality(Keys(a)) = Len(a)}

\* a calibration file written by an earlier complete run
FullCalibration(hR, hL) == Merge(SideRecords("right", hR), SideRecords("left", hL))

\* ------------------------------------------------------------------- Init
\* pre between calls
NoPre ==
    [connected |-> FALSE, calibrated |-> FALSE,
     conn |-> [s \in Sides |-> FALSE], calibration |-> EmptyMap]

\* __init__: the calibration file, when there is one, is loaded and split over the buses
Init ==
    /\ variant \in Variants
    /\ maxStep = NoStep
    /\ cameras \in IF variant = "follower" THEN SUBSET CameraNames ELSE {{}}
    /\ busConnected = [s \in Sides |-> FALSE]
    /\ camConnected = [c \in cameras |-> FALSE]
    /\ torque \in [Sides -> BOOLEAN]
    /\ calibration \in {EmptyMap, FullCalibration(0, 0)}
    /\ busCal = [s \in Sides |-> SplitSide(calibration, s)]
    /\ lastOp = None
    /\ pre = NoPre
    /\ lastFlag = FALSE
    /\ lastArg = <<>>
    /\ result = NoError
    /\ ret = EmptyMap
    /\ ioLog = <<>>

\* the method has run: its effects, its outcome and its log become the state
Commit(s, op, flag, arg, step) ==
    /\ pre' = [connected |-> is_connected, calibrated |-> is_calibrated,
               conn |-> busConnected, calibration |-> calibration]
    /\ busConnected' = s.conn
    /\ camConnected' = s.cam
    /\ torque' = s.torque
    /\ busCal' = s.busCal
    /\ calibration' = s.calibration
    /\ lastOp' = op
    /\ lastFlag' = flag
    /\ lastArg' = arg
    /\ maxStep' = step
    /\ result' = s.err
    /\ ret' = s.ret
    /\ ioLog' = s.log
    /\ UNCHANGED <<variant, cameras>>

\* ---------------------------------------------------------------- actions
\* the positions the buses may answer a read with (one value when no read is made)
Answers(reads) == IF reads THEN Positions ELSE {0}

\* the offsets a calibration may find (one value when none runs)
Homings(runs) == IF runs THEN Offsets ELSE {0}

\* a method is called when the caller has taken the outcome of the one before
Idle == lastOp = None

Connect ==
    /\ Idle
    /\ \E calibrate \in BOOLEAN :
        \E hR \in Homings(calibrate), hL \in Homings(calibrate) :
            \E s \in Outcomes(Machine, ConnectProgram(calibrate, hR, hL)) :
                Commit(s, "connect", calibrate, <<>>, NoStep)

Calibrate ==
    /\ Idle
    /\ \E hR \in Offsets, hL \in Offsets :
        \E s \in Outcomes(Machine, CalibrateProgram(hR, hL)) :
            Commit(s, "calibrate", FALSE, <<>>, NoStep)

Configure ==
    /\ Idle
    /\ \E s \in Outcomes(Machine, ConfigureProgram) :
        Commit(s, "configure", FALSE, <<>>, NoStep)

Disconnect ==
    /\ Idle
    /\ \E dt \in (IF variant = "follower" /\ is_connected THEN BOOLEAN ELSE {TRUE}) :
        \E s \in Outcomes(Machine, DisconnectProgram(dt)) :
            Commit(s, "disconnect", dt, <<>>, NoStep)

GetObservation ==
    /\ Idle
    /\ variant = "follower"
    /\ \E pR \in Answers(is_connected), pL \in Answers(is_connected) :
        \E s \in Outcomes(Machine, GetObservationProgram(pR, pL)) :
            Commit(s, "get_observation", FALSE, <<>>, NoStep)

GetAction ==
    /\ Idle
    /\ variant = "leader"
    /\ \E pR \in Answers(busConnected["right"]), pL \in Answers(busConnected["left"]) :
        \E s \in Outcomes(Machine, GetActionProgram(pR, pL)) :
            Commit(s, "get_action", FALSE, <<>>, NoStep)

Steps == {NoStep} \cup {<<k>> : k \in 1..MaxStep}

SendAction ==
    /\ Idle
    /\ variant = "follower"
    /\ \E action \in Actions, step \in (IF is_connected THEN Steps ELSE {NoStep}) :
        \E pR \in Answers(is_connected /\ step # NoStep),
           pL \in Answers(is_connected /\ step # NoStep) :
            \E s \in Outcomes(Machine, SendActionProgram(action, step, pR, pL)) :
                Commit(s, "send_action", FALSE, action, step)

\* send_feedback() of the leader
SendFeedback ==
    /\ Idle
    /\ variant = "leader"
    /\ \E s \in Outcomes(Machine, Raise("NotImplementedError")) :
        Commit(s, "send_feedback", FALSE, <<>>, NoStep)

\* the caller has the outcome; the device waits for the next call
Return ==
    /\ lastOp # None
    /\ lastOp' = None
    /\ pre' = NoPre
    /\ lastFlag' = FALSE
    /\ lastArg' = <<>>
    /\ result' = NoError
    /\ ret' = EmptyMap
    /\ ioLog' = <<>>
    /\ maxStep' = NoStep
    /\ UNCHANGED <<variant, cameras, busConnected,
                   camConnected, torque, busCal, calibration>>

Next ==
    \/ Return
    \/ Connect
    \/ Calibrate
    \/ Configure
    \/ Disconnect
    \/ GetObservation
    \/ GetAction
    \/ SendAction
    \/ SendFeedback

Spec == Init /\ [][Next]_vars

\* =================================================================== claims
\* ------------------------------------------------- reading the log of a call
Entries == 1..Len(ioLog)

IsRead(i, side) == ioLog[i].dev = side /\ ioLog[i].op = "sync_read"
IsGoalWrite(i, side) == ioLog[i].dev = side /\ ioLog[i].op = "sync_write"

\* the call raised no exception and none of its bus calls failed
Returned == result = NoError

\* the valid unified position keys: f"{side}_{motor}.pos"
UnifiedPosKeys == {<<Prefix(side), m, ".pos">> : side \in Sides, m \in MotorNames}

\* the side a unified key names, by its leading prefix
SideOf(key) == IF key[1] = "right_" THEN "right" ELSE "left"

\* a send_action with a maximum step configured has just run
ClampedSend == lastOp = "send_action" /\ maxStep # NoStep

\* a send_action without a maximum step has just run
PlainSend == lastOp = "send_action" /\ maxStep = NoStep

\* the value the caller asked for under key
Requested(key) == ToMap(lastArg)[key]

PresentOf(side, m) ==
    LET j == CHOOSE i \in Entries : IsRead(i, side) /\ ioLog[i].ok
    IN  ioLog[j].arg[<<m>>]

\* C2 (as claimed): on a connected follower with a maximum step configured, a
\* send_action whose keys are all valid unified position keys, and whose bus calls
\* all succeed, returns under each requested key the clamped value
\* current + sign(delta) * maxStep when |delta| > maxStep, else the requested value.
C2_ClampedActionReturned ==
    ( /\ ClampedSend
      /\ pre.connected
      /\ Keys(lastArg) \subseteq UnifiedPosKeys
      /\ lastArg # <<>>
      /\ result # "BusTransportError" )
    => /\ Returned
       /\ DOMAIN ret = Keys(lastArg)
       /\ \A k \in Keys(lastArg) :
            ret[k] = Clamp(Requested(k), PresentOf(SideOf(k), k[2]), maxStep[1])

\* ---------------------------------------------------------------------- C3
\* the goal map handed to the side's bus by the call
WrittenTo(side) ==
    LET j == CHOOSE i \in Entries : IsGoalWrite(i, side)
    IN  ioLog[j].arg

\* C3 (as claimed): the map a send_action returns is exactly what it wrote: every
\* returned key is a side prefix, a local key and ".pos", the local key was written
\* to that side's bus with the returned value, and every key written to a bus is
\* returned.
C3_ReturnedIsWritten ==
    (lastOp = "send_action" /\ Returned) =>
        /\ \A k \in DOMAIN ret :
            /\ Len(k) >= 3
            /\ k[1] \in {"right_", "left_"}
            /\ EndsWith(k, ".pos")
            /\ SubSeq(k, 2, Len(k) - 1) \in DOMAIN WrittenTo(SideOf(k))
            /\ WrittenTo(SideOf(k))[SubSeq(k, 2, Len(k) - 1)] = ret[k]
        /\ \A side \in Sides : \A l \in DOMAIN WrittenTo(side) :
            /\ (<<Prefix(side)>> \o l \o <<".pos">>) \in DOMAIN ret
            /\ ret[<<Prefix(side)>> \o l \o <<".pos">>] = WrittenTo(side)[l]

\* ---------------------------------------------------------------------- C4
\* C4: with a maximum step configured, a send_action issues a Goal_Position write
\* only after it has read Present_Position from both buses.
C4_ReadsBeforeWrites ==
    ClampedSend =>
        \A i \in Entries :
            ioLog[i].op = "sync_write" =>
                \A side \in Sides : \E j \in 1..(i - 1) : IsRead(j, side) /\ ioLog[j].ok

\* a clamped send_action that has read both buses and then written to both
C4_Witness ==
    /\ ClampedSend
    /\ Len(ioLog) = 4
    /\ \A i \in Entries : ioLog[i].ok
    /\ IsRead(1, "right") /\ IsRead(2, "left")
    /\ IsGoalWrite(3, "right") /\ IsGoalWrite(4, "left")

\* ---------------------------------------------------------------------- C5
\* the keys of the action that end in ".pos"
PosKeys == {k \in Keys(lastArg) : EndsWith(k, ".pos")}

\* some bus was handed the value the caller asked for under key
WrittenAsAsked(key) ==
    \E side \in Sides : \E i \in Entries :
        /\ IsGoalWrite(i, side)
        /\ \E l \in DOMAIN ioLog[i].arg : ioLog[i].arg[l] = Requested(key)

\* C5 (as claimed): without a maximum step, a send_action reads no position, drops
\* the keys that do not end in ".pos", and writes and returns the value asked for
\* under every other key, unchanged.
C5_PlainActionWrittenAndReturned ==
    (PlainSend /\ Returned) =>
        /\ \A i \in Entries : ioLog[i].op # "sync_read"
        /\ DOMAIN ret = PosKeys
        /\ \A k \in PosKeys : ret[k] = Requested(k) /\ WrittenAsAsked(k)

\* ---------------------------------------------------------------------- C6
\* the keys of the action that start with neither side prefix
Unprefixed == {k \in Keys(lastArg) : ~StartsWith(k, "right_") /\ ~StartsWith(k, "left_")}

\* C6 (as claimed): a send_action on a connected device whose action holds a key
\* with neither side prefix ends in an error.
C6_UnprefixedKeyReported ==
    (lastOp = "send_action" /\ pre.connected /\ Unprefixed # {}) => ~Returned

\* ---------------------------------------------------------------------- C7
\* the i-th call of the method was op on the side's bus
IsBusCall(i, side, op) == i \in Entries /\ ioLog[i].dev = side /\ ioLog[i].op = op

\* connect() connected the right bus and then failed to connect the left bus, which
\* was not connected before
LeftConnectFailed ==
    /\ lastOp = "connect"
    /\ ~pre.conn["left"]
    /\ IsBusCall(1, "right", "connect") /\ ioLog[1].ok
    /\ IsBusCall(2, "left", "connect") /\ ~ioLog[2].ok

\* C7: when connect() connects the right bus and the left bus then fails to connect,
\* connect() raises, is_connected is false, the right bus stays connected, and no
\* further call (calibration, configuration, camera) is made.
C7_PartialConnectStops ==
    LeftConnectFailed =>
        /\ ~Returned
        /\ ~is_connected
        /\ busConnected["right"]
        /\ ~busConnected["left"]
        /\ Len(ioLog) = 2

\* a connect() on a device with neither bus connected that got the right bus
\* connected and failed on the left bus
C7_Witness ==
    /\ LeftConnectFailed
    /\ ~pre.conn["right"]
    /\ result = "BusTransportError"

\* ---------------------------------------------------------------------- C8
\* C8 (as claimed): a disconnect() called with the right bus connected and the left
\* bus not, and whose bus calls do not fail in transport, leaves both buses
\* disconnected.
C8_DisconnectResetsPartialConnection ==
    ( /\ lastOp = "disconnect"
      /\ pre.conn["right"]
      /\ ~pre.conn["left"]
      /\ result # "BusTransportError" )
    => ~busConnected["right"] /\ ~busConnected["left"]

\* ---------------------------------------------------------------------- C9
\* the method made the call op on the side's bus and it succeeded
Did(side, op) == \E i \in Entries : IsBusCall(i, side, op) /\ ioLog[i].ok

\* a calibration run, started by calibrate() or by connect(), was interrupted after the
\* right side's homing and before the left side's calibration was written to its bus
CalibrationInterrupted ==
    /\ lastOp \in {"calibrate", "connect"}
    /\ ~Returned
    /\ Did("right", "set_half_turn_homings")
    /\ ~Did("left", "write_calibration")

OneSided(cal) ==
    \E side \in Sides :
        /\ SplitSide(cal, side) # EmptyMap
        /\ \A other \in Sides \ {side} : SplitSide(cal, other) = EmptyMap

\* C10 (as claimed): after a calibrate() that failed, self.calibration does not hold
\* the records of one side only.
C10_NoOneSidedRecords ==
    (lastOp = "calibrate" /\ ~Returned) => ~OneSided(calibration)

\* --------------------------------------------------------------------- C11
\* what the side's bus answered the call op with in this method
AnswerOf(side, op) ==
    LET j == CHOOSE i \in Entries : IsBusCall(i, side, op) /\ ioLog[i].ok
    IN  ioLog[j].arg

\* a calibration run, started by calibrate() or by connect(), went through to the
\* saving of the calibration file
CalibrationCompleted ==
    /\ lastOp \in {"calibrate", "connect"}
    /\ Did("file", "save")

\* the 16 records built from the offsets and ranges the buses answered in this run
RecordsOfThisRun ==
    [k \in {<<p, m>> : p \in {"right_", "left_"}, m \in MotorNames} |->
        [id |-> MotorId(k[2]),
         drive_mode |-> 0,
         homing_offset |-> AnswerOf(SideOf(k), "set_half_turn_homings")[<<k[2]>>],
         range_min |-> AnswerOf(SideOf(k), "record_ranges_of_motion")[<<"min", k[2]>>],
         range_max |-> AnswerOf(SideOf(k), "record_ranges_of_motion")[<<"max", k[2]>>]]]

\* C11: after a calibration run that went through, self.calibration is exactly the
\* 16 records built from this run's homing offsets and ranges; nothing of an earlier
\* run is left.
C11_CalibrationFullyReplaced == CalibrationCompleted => calibration = RecordsOfThisRun

\* a calibrate() that returned on a device holding the records of an earlier run
\* with other offsets
C11_Witness ==
    /\ lastOp = "calibrate"
    /\ Returned
    /\ pre.calibration # EmptyMap
    /\ pre.calibration # calibration

\* --------------------------------------------------------------------- C12
\* C12: a connect() on a connected device raises DeviceAlreadyConnectedError, makes
\* no bus or camera call, and leaves the connections and the calibration as they were.
C12_ConnectWhenConnectedRefused ==
    (lastOp = "connect" /\ pre.connected) =>
        /\ result = "DeviceAlreadyConnectedError"
        /\ ioLog = <<>>
        /\ busConnected = pre.conn
        /\ is_connected
        /\ calibration = pre.calibration
        /\ is_calibrated = pre.calibrated

\* a connect() was called on a connected device
C12_Witness == lastOp = "connect" /\ pre.connected /\ ~Returned

\* --------------------------------------------------------------------- C13
\* C13 (as claimed): a disconnect() on a device that is not connected raises
\* DeviceNotConnectedError and calls disconnect on neither bus.
C13_DisconnectWhenNotConnectedRefused ==
    (lastOp = "disconnect" /\ ~pre.connected) =>
        /\ result = "DeviceNotConnectedError"
        /\ \A i \in Entries : ioLog[i].op # "disconnect"

\* --------------------------------------------------------------------- C14
\* C14 (as claimed): a get_observation() or get_action() on a device that is not
\* connected raises DeviceNotConnectedError and attempts no bus read.
C14_ReadWhenNotConnectedRefused ==
    (lastOp \in {"get_observation", "get_action"} /\ ~pre.connected) =>
        /\ result = "DeviceNotConnectedError"
        /\ \A i \in Entries : ioLog[i].op # "sync_read"

\* --------------------------------------------------------------------- C15
\* a bus or a camera was not connected when the method was called (for a method that
\* makes no camera call)
SomethingDisconnected ==
    \/ ~pre.conn["right"]
    \/ ~pre.conn["left"]
    \/ \E c \in cameras : ~camConnected[c]

\* C15: a send_action on a follower with a bus or a camera not connected raises
\* DeviceNotConnectedError, makes no bus call and returns nothing.
C15_SendWhenNotConnectedRefused ==
    (lastOp = "send_action" /\ SomethingDisconnected) =>
        /\ result = "DeviceNotConnectedError"
        /\ ioLog = <<>>
        /\ ret = EmptyMap

\* a send_action of a position on a follower whose buses are connected and whose
\* camera is not
C15_Witness ==
    /\ lastOp = "send_action"
    /\ pre.conn["right"] /\ pre.conn["left"]
    /\ \E c \in cameras : ~camConnected[c]
    /\ lastArg # <<>>
    /\ ~Returned

\* --------------------------------------------------------------------- C16
\* the operations that go to both buses
DualOps == {"connect", "disconnect", "sync_read", "sync_write"}

\* C16: whenever a method attempts the left-bus step of a dual operation (connect,
\* disconnect, position read, goal write), the right-bus step of the same operation
\* has completed earlier in the same call.
C16_RightBeforeLeft ==
    \A i \in Entries :
        (ioLog[i].dev = "left" /\ ioLog[i].op \in DualOps) =>
            \E j \in 1..(i - 1) : IsBusCall(j, "right", ioLog[i].op) /\ ioLog[j].ok

\* a disconnect() whose left-bus step failed after its right-bus step
C16_Witness ==
    /\ lastOp = "disconnect"
    /\ IsBusCall(1, "right", "disconnect") /\ ioLog[1].ok
    /\ IsBusCall(2, "left", "disconnect") /\ ~ioLog[2].ok

\* --------------------------------------------------------------------- C17
\* the cross product of the sides and the eight joint slots, as position keys
CrossProductKeys ==
    {<<p, j, ".pos">> : p \in {"right_", "left_"},
                        j \in {"joint0", "joint1", "joint2", "joint3",
                               "joint4", "joint5", "joint6", "gripper"}}

\* a get_observation() or get_action() has returned
ReadReturned == lastOp \in {"get_observation", "get_action"} /\ Returned

\* C17: the action features, the motor part of the observation features and the
\* position keys of every map a read returns are exactly the 16 keys
\* {right_, left_} x {joint0..joint6, gripper} with the suffix ".pos".
C17_UnifiedKeySet ==
    /\ Cardinality(CrossProductKeys) = 2 * NumMotors
    /\ DOMAIN ActionFeatures = CrossProductKeys
    /\ (variant = "follower" =>
            (DOMAIN ObservationFeatures) \ (DOMAIN CamerasFt) = CrossProductKeys)
    /\ (ReadReturned => {k \in DOMAIN ret : EndsWith(k, ".pos")} = CrossProductKeys)

\* a get_observation() that returned positions and a camera frame
C17_Witness ==
    /\ ReadReturned
    /\ lastOp = "get_observation"
    /\ cameras # {}
    /\ DOMAIN ret # CrossProductKeys

\* --------------------------------------------------------------------- C18
\* every key of the action is a position key with a side prefix
AllPrefixedPositions ==
    \A k \in Keys(lastArg) :
        EndsWith(k, ".pos") /\ (StartsWith(k, "right_") \/ StartsWith(k, "left_"))

\* C18 (as claimed): for a map whose keys all start with a side prefix, the two local
\* maps send_action splits it into, put back under their side prefixes, are the map
\* again.
C18_SplitThenMergeIsIdentity ==
    (PlainSend /\ Returned /\ AllPrefixedPositions) =>
        Merge(Unified("right", WrittenTo("right")), Unified("left", WrittenTo("left")))
            = ToMap(lastArg)

\* --------------------------------------------------------------------- C19
\* send_action wrote the right bus and the write to the left bus, next, failed
LeftWriteFailed ==
    /\ lastOp = "send_action"
    /\ \E i \in Entries :
        /\ IsGoalWrite(i, "right") /\ ioLog[i].ok
        /\ IsGoalWrite(i + 1, "left") /\ ~ioLog[i + 1].ok

\* C19: when send_action has written the right bus and the left write then fails, the
\* failure reaches the caller, nothing is returned, the left bus has taken no goal,
\* and the failed left write is the last call: the right bus is written once.
C19_NoRollbackOfPartialWrite ==
    LeftWriteFailed =>
        /\ ~Returned
        /\ ret = EmptyMap
        /\ \A i \in Entries : IsGoalWrite(i, "left") => (~ioLog[i].ok /\ i = Len(ioLog))
        /\ Cardinality({i \in Entries : IsGoalWrite(i, "right")}) = 1

\* the right bus took a new goal and the left write failed
C19_Witness ==
    /\ LeftWriteFailed
    /\ WrittenTo("right") # EmptyMap
    /\ result = "BusTransportError"

\* --------------------------------------------------------------------- C20
\* the calls a calibration run makes and no other part of connect() does
IsCalibrationCall(i) ==
    \/ ioLog[i].dev \in {"console", "file"}
    \/ ioLog[i].op \in {"set_half_turn_homings", "record_ranges_of_motion",
                        "write_calibration"}

\* the calibration run got as far as its first prompt
CalibrationRan == \E i \in Entries : ioLog[i].dev = "console"

\* the registers configure() sets on every motor, with their values
DefaultConfiguration ==
    IF variant = "follower"
    THEN {<<"Operating_Mode", PositionMode>>, <<"P_Coefficient", PCoefficient>>,
          <<"I_Coefficient", ICoefficient>>, <<"D_Coefficient", DCoefficient>>}
    ELSE {<<"Operating_Mode", PositionMode>>}

\* the register was written with the value on the side's motor after every call of
\* the calibration run
ConfiguredAfterCalibration(side, m, rv) ==
    \E i \in Entries :
        /\ IsBusCall(i, side, "write") /\ ioLog[i].ok
        /\ DOMAIN ioLog[i].arg = {<<rv[1], m>>}
        /\ ioLog[i].arg[<<rv[1], m>>] = rv[2]
        /\ \A j \in Entries : IsCalibrationCall(j) => j < i

ConfiguredBefore(i, side, m, rv) ==
    \E j \in Entries :
        /\ j < i
        /\ IsBusCall(j, side, "write") /\ ioLog[j].ok
        /\ DOMAIN ioLog[j].arg = {<<rv[1], m>>}
        /\ ioLog[j].arg[<<rv[1], m>>] = rv[2]

\* the i-th call connected a camera
IsCameraConnect(i) ==
    ioLog[i].dev \in CameraNames /\ ioLog[i].op = "connect" /\ ioLog[i].ok

\* C21 (as claimed): in a connect() of the follower no camera is connected before the
\* default configuration has been written to every motor of both buses.
C21_CamerasAfterMotorSetup ==
    (lastOp = "connect" /\ variant = "follower") =>
        \A i \in Entries :
            IsCameraConnect(i) =>
                \A side \in Sides, m \in MotorNames, rv \in DefaultConfiguration :
                    ConfiguredBefore(i, side, m, rv)

\* --------------------------------------------------------------------- C22
\* the side's 8 records of this run under the bus's own motor names, field by field
LocalRecordsOfThisRun(side) ==
    [k \in {<<m, f>> : m \in {"joint0", "joint1", "joint2", "joint3",
                              "joint4", "joint5", "joint6", "gripper"},
                       f \in {"id", "drive_mode", "homing_offset", "range_min",
                              "range_max"}} |->
        RecordsOfThisRun[<<Prefix(side), k[1]>>][k[2]]]

\* the call op on the side's bus returned before the i-th call
DidBefore(i, side, op) ==
    \E j \in Entries : j < i /\ IsBusCall(j, side, op) /\ ioLog[j].ok

\* C22: in a calibration run a bus is handed its calibration only after the ranges of
\* both sides were recorded, what it is handed is exactly the 8 records of its own
\* side under local keys, the left bus is written only after the right bus was, and
\* the calibration file is saved only after both buses were written.
C22_BusesWrittenThenSaved ==
    lastOp \in {"calibrate", "connect"} =>
        \A i \in Entries :
            /\ \A side \in Sides :
                IsBusCall(i, side, "write_calibration") =>
                    /\ \A s \in Sides : DidBefore(i, s, "record_ranges_of_motion")
                    /\ ioLog[i].arg = LocalRecordsOfThisRun(side)
            /\ IsBusCall(i, "left", "write_calibration") =>
                    DidBefore(i, "right", "write_calibration")
            /\ (ioLog[i].dev = "file" /\ ioLog[i].op = "save") =>
                    \A s \in Sides : DidBefore(i, s, "write_calibration")

\* a calibration run that went through, the two arms answering different offsets
C22_Witness ==
    /\ CalibrationCompleted
    /\ Returned
    /\ AnswerOf("right", "write_calibration") # AnswerOf("left", "write_calibration")

\* --------------------------------------------------------------------- C23
\* self.calibration holds the right arm's 8 records built from this run's answers
RightRecordsBuilt ==
    \A m \in MotorNames :
        /\ <<"right_", m>> \in DOMAIN calibration
        /\ calibration[<<"right_", m>>] = RecordsOfThisRun[<<"right_", m>>]

\* C23: in a calibration run the homing of a bus is called only after torque was
\* disabled on that bus and each of its 8 motors was set to operating mode POSITION,
\* the range recording of a bus only after its homing returned, and the homing of
\* the left bus only after the range recording of the right bus returned and the
\* right arm's records were built.
C23_CalibrationStepsInOrder ==
    lastOp \in {"calibrate", "connect"} =>
        \A i \in Entries :
            /\ \A side \in Sides :
                /\ IsBusCall(i, side, "set_half_turn_homings") =>
                    /\ DidBefore(i, side, "disable_torque")
                    /\ \A m \in MotorNames :
                        ConfiguredBefore(i, side, m, <<"Operating_Mode", PositionMode>>)
                /\ IsBusCall(i, side, "record_ranges_of_motion") =>
                    DidBefore(i, side, "set_half_turn_homings")
            /\ IsBusCall(i, "left", "set_half_turn_homings") =>
                /\ DidBefore(i, "right", "record_ranges_of_motion")
                /\ RightRecordsBuilt

\* a calibrate() on a device without records, stopped by the failure of the left
\* arm's homing
C23_Witness ==
    /\ lastOp = "calibrate"
    /\ pre.calibration = EmptyMap
    /\ \E i \in Entries : IsBusCall(i, "left", "set_half_turn_homings") /\ ~ioLog[i].ok

\* --------------------------------------------------------------------- C24
\* before the i-th call the side's torque_disabled() block was entered and not left
InBlock(i, side) ==
    /\ DidBefore(i, side, "torque_disabled.enter")
    /\ \A j \in Entries : j < i => ~IsBusCall(j, side, "torque_disabled.exit")

\* the i-th call is a call configure() of the follower makes on its motors
IsConfigureCall(i) ==
    /\ ioLog[i].op \in {"write", "configure_motors"}
    /\ \E j \in Entries : j < i /\ ioLog[j].op = "torque_disabled.enter"

\* configure() entered both torque_disabled() blocks and a register write then failed
ConfigureWriteFailed ==
    \E i \in Entries :
        /\ IsConfigureCall(i)
        /\ ioLog[i].op = "write"
        /\ ~ioLog[i].ok

\* C24: the follower's configure() makes its motor calls with the torque_disabled()
\* blocks of both buses entered and not yet left, torque is enabled on both buses
\* after a configure() in which a register write failed, and after every connect()
\* or configure() of the follower that returns.
C24_FollowerTorqueReenabled ==
    (variant = "follower" /\ lastOp \in {"connect", "configure"}) =>
        /\ \A i \in Entries : IsConfigureCall(i) => \A side \in Sides : InBlock(i, side)
        /\ ConfigureWriteFailed => \A side \in Sides : torque[side]
        /\ Returned => \A side \in Sides : torque[side]

\* a connect() of the follower that calibrated, which disables torque, and returned
C24_Witness ==
    /\ variant = "follower"
    /\ lastOp = "connect"
    /\ Returned
    /\ Did("right", "disable_torque") /\ Did("left", "disable_torque")
    /\ \A side \in Sides : torque[side]

\* --------------------------------------------------------------------- C25
\* a step of the leader switches torque on on no bus, and a connect() that returns
\* leaves torque off on both
LeaderKeepsTorqueOff ==
    variant = "leader" =>
        /\ \A side \in Sides : torque'[side] => torque[side]
        /\ (lastOp' = "connect" /\ result' = NoError) => \A side \in Sides : ~torque'[side]

\* C25: no operation of the leader enables torque on a bus, and a connect() of the
\* leader that returns leaves torque disabled on both buses; so torque stays disabled
\* on both buses in every state after it.
C25_LeaderTorqueStaysOff == [][LeaderKeepsTorqueOff]_vars

\* a get_action() that returned on a leader whose arms are backdrivable
C25_Witness ==
    /\ variant = "leader"
    /\ lastOp = "get_action"
    /\ Returned
    /\ pre.connected
    /\ \A side \in Sides : ~torque[side]

====
